---- MODULE Spec2Model ----
(***************************************************************************)
(* A model of the Community Coin core engine                               *)
(* (src/community-coin/src/blockchain.rs): the account store, the mempool, *)
(* block assembly (mine_block), block application (add_block), the sled    *)
(* store and load.                                                         *)
(*                                                                         *)
(* u64 quantities (balances, amounts, fees) are natural numbers written as *)
(* little-endian sequences of base-10000 limbs without high zero limbs     *)
(* (<<>> is 0, <<0, 0, 0, 1>> is 10^12), because the amounts the engine    *)
(* handles (10^12, 2^64) do not fit the model checker's machine integers.  *)
(***************************************************************************)
EXTENDS Integers, Sequences, FiniteSets, TLC

----------------------------------------------------------------------------
(* Natural numbers of any size.                                            *)

Limb == 100 * 100

RECURSIVE BigNorm(_)
BigNorm(s) ==
  IF s = <<>> THEN <<>>
  ELSE IF s[Len(s)] = 0 THEN BigNorm(SubSeq(s, 1, Len(s) - 1))
  ELSE s

RECURSIVE N(_)
N(n) == IF n = 0 THEN <<>> ELSE <<n % Limb>> \o N(n \div Limb)

RECURSIVE BigAddC(_, _, _)
BigAddC(a, b, c) ==
  IF a = <<>> /\ b = <<>> THEN (IF c = 0 THEN <<>> ELSE <<c>>)
  ELSE LET x == IF a = <<>> THEN 0 ELSE Head(a)
           y == IF b = <<>> THEN 0 ELSE Head(b)
           s == x + y + c
       IN  <<s % Limb>> \o BigAddC(IF a = <<>> THEN <<>> ELSE Tail(a),
                                   IF b = <<>> THEN <<>> ELSE Tail(b),
                                   s \div Limb)

BigAdd(a, b) == BigAddC(a, b, 0)

RECURSIVE BigCmpFrom(_, _, _)
BigCmpFrom(a, b, i) ==
  IF i = 0 THEN 0
  ELSE IF a[i] < b[i] THEN -1
  ELSE IF a[i] > b[i] THEN 1
  ELSE BigCmpFrom(a, b, i - 1)

\* -1, 0, 1 as a < b, a = b, a > b
BigCmp(a, b) ==
  IF Len(a) < Len(b) THEN -1
  ELSE IF Len(a) > Len(b) THEN 1
  ELSE BigCmpFrom(a, b, Len(a))

BigLt(a, b) == BigCmp(a, b) < 0
BigLe(a, b) == BigCmp(a, b) <= 0

RECURSIVE BigSubB(_, _, _)
BigSubB(a, b, br) ==
  IF a = <<>> THEN <<>>
  ELSE LET y == IF b = <<>> THEN 0 ELSE Head(b)
           d == Head(a) - y - br
       IN  <<IF d < 0 THEN d + Limb ELSE d>>
             \o BigSubB(Tail(a), IF b = <<>> THEN <<>> ELSE Tail(b),
                        IF d < 0 THEN 1 ELSE 0)

\* a - b for a >= b
BigSub(a, b) == BigNorm(BigSubB(a, b, 0))

RECURSIVE BigMulSmallC(_, _, _)
BigMulSmallC(a, d, c) ==
  IF a = <<>> THEN (IF c = 0 THEN <<>> ELSE <<c>>)
  ELSE LET p == Head(a) * d + c
       IN  <<p % Limb>> \o BigMulSmallC(Tail(a), d, p \div Limb)

\* a * d for a limb d
BigMulSmall(a, d) == BigNorm(BigMulSmallC(a, d, 0))

RECURSIVE BigMul(_, _)
BigMul(a, b) ==
  IF b = <<>> \/ a = <<>> THEN <<>>
  ELSE LET rest == BigMul(a, Tail(b))
       IN  BigAdd(BigMulSmall(a, Head(b)),
                  IF rest = <<>> THEN <<>> ELSE <<0>> \o rest)

RECURSIVE BigDivSmallR(_, _, _, _)
BigDivSmallR(a, d, i, r) ==
  IF i = 0 THEN <<>>
  ELSE LET cur == r * Limb + a[i]
       IN  BigDivSmallR(a, d, i - 1, cur % d) \o <<cur \div d>>

\* floor(a / d) and a mod d for 1 <= d <= 100
BigDivSmall(a, d) == BigNorm(BigDivSmallR(a, d, Len(a), 0))

RECURSIVE BigModSmallR(_, _, _, _)
BigModSmallR(a, d, i, r) ==
  IF i = 0 THEN r ELSE BigModSmallR(a, d, i - 1, (r * Limb + a[i]) % d)

BigModSmall(a, d) == BigModSmallR(a, d, Len(a), 0)

BigHalf(a) == BigDivSmall(a, 2)
BigOdd(a) == a # <<>> /\ a[1] % 2 = 1

RECURSIVE BigPow2(_)
BigPow2(k) ==
  IF k = 0 THEN <<1>>
  ELSE LET h == BigPow2(k - 1) IN IF h = <<>> THEN <<>> ELSE BigMulSmall(h, 2)

RECURSIVE BigSum(_)
BigSum(s) == IF s = <<>> THEN <<>> ELSE BigAdd(Head(s), BigSum(Tail(s)))

----------------------------------------------------------------------------
(* u64 and f64 arithmetic.                                                 *)

\* 2^64 = 18446744073709551616
TwoPow64 == <<1616, 955, 737, 6744, 1844>>
U64Max == BigSub(TwoPow64, <<1>>)

\* 2^53 = 9007199254740992: an f64 significand is below it
TwoPow53 == <<992, 5474, 1992, 9007>>

\* An f64 value is sig * 2^exp with sig < 2^53.  Round a natural number
\* q * 2^e to the nearest such value, ties to even (IEEE 754 default).
RECURSIVE F64Shift(_, _, _, _)
F64Shift(q, e, guard, sticky) ==
  IF BigLt(q, TwoPow53)
    THEN [sig |-> q, exp |-> e, guard |-> guard, sticky |-> sticky]
  ELSE IF sticky \/ guard THEN F64Shift(BigHalf(q), e + 1, BigOdd(q), TRUE)
  ELSE F64Shift(BigHalf(q), e + 1, BigOdd(q), FALSE)

F64Round(q, e) ==
  LET s == F64Shift(q, e, FALSE, FALSE)
      up == s.guard /\ (s.sticky \/ BigOdd(s.sig))
      sig == IF up THEN BigAdd(s.sig, <<1>>) ELSE s.sig
  IN  IF BigLt(sig, TwoPow53) THEN [sig |-> sig, exp |-> s.exp]
      ELSE [sig |-> BigHalf(sig), exp |-> s.exp + 1]

\* `amount as f64`
F64FromU64(n) == F64Round(n, 0)

\* The f64 literal 0.01 is 0x1.47ae147ae147bp-7 = 5764607523034235 * 2^-59
F64_001 == [sig |-> <<4235, 2303, 6075, 5764>>, exp |-> -59]

F64Mul(x, y) == F64Round(BigMul(x.sig, y.sig), x.exp + y.exp)

\* ceil(q / 2^k); rem: a 1 bit was shifted out
RECURSIVE CeilShift(_, _, _)
CeilShift(q, k, rem) ==
  IF k = 0 \/ q = <<>> THEN (IF rem THEN BigAdd(q, <<1>>) ELSE q)
  ELSE IF rem THEN CeilShift(BigHalf(q), k - 1, TRUE)
  ELSE CeilShift(BigHalf(q), k - 1, BigOdd(q))

\* `.ceil() as u64` of a non-negative f64: the cast saturates at u64::MAX
F64CeilToU64(x) ==
  LET c == IF x.exp >= 0 THEN BigMul(x.sig, BigPow2(x.exp))
           ELSE CeilShift(x.sig, -x.exp, FALSE)
  IN  IF BigLt(c, TwoPow64) THEN c ELSE U64Max

\* a fee that drops the fraction: amount / 100 in integers
FeeOfFloor(amount) == BigDivSmall(amount, 100)

\* blockchain.rs:177  let fee = (amount as f64 * 0.01).ceil() as u64;
FeeOf(amount) == F64CeilToU64(F64Mul(F64FromU64(amount), F64_001))

----------------------------------------------------------------------------
(* u64 arithmetic of the engine.  `checked` is the build's overflow-checks *)
(* setting: a checked build panics on overflow, an unchecked one wraps.    *)

U64AddOverflows(a, b) == ~BigLt(BigAdd(a, b), TwoPow64)
U64WrappingAdd(a, b) ==
  LET s == BigAdd(a, b) IN IF BigLt(s, TwoPow64) THEN s ELSE BigSub(s, TwoPow64)
U64SubOverflows(a, b) == BigLt(a, b)
U64WrappingSub(a, b) ==
  IF BigLe(b, a) THEN BigSub(a, b) ELSE BigSub(BigAdd(a, TwoPow64), b)

----------------------------------------------------------------------------
(* Bounds of the model.                                                    *)

MaxTime == 2       \* the clock (seconds) runs 1..MaxTime
MaxPending == 3    \* create_transaction is not called on a longer mempool
MaxChain == 3      \* blocks in the chain, genesis included
MaxMined == 2      \* blocks mine_block has handed to callers
MaxRestarts == 1   \* close + load
MaxCreated == 3    \* successful create_transaction calls in a run
MaxSmallAmount == 120  \* the fee runs try every amount 1..MaxSmallAmount
MaxInflight == 2   \* create_transaction calls under way at once (concurrent runs)
MaxFaults == 1     \* add_block calls in which a write to the store fails
MaxForeign == 1    \* blocks not from mine_block that pass add_block's header checks

Addresses == {"a", "a-a", "b"}
\* the addresses in byte order (the order of sort_by_key on String)
AddrOrder == <<"a", "a-a", "b">>

\* new(initial_wallets, ..) of the runs checked: a holds 1000
InitialWallets == [x \in {"a"} |-> N(1000)]
\* the callers' addresses and amounts (0, 100, 600, 2000) of the runs checked
Callers == {"a", "b"}
Amounts == {<<>>, N(100), N(600), N(2000)}

\* 10^12, the cap of the HTTP boundary (main.rs:119)
TenPow12 == <<0, 0, 0, 1>>
\* runs with large amounts: a holds 3 * 10^12; amounts 0, 10^12, 10^12 + 1
RichWallets == [x \in {"a"} |-> <<0, 0, 0, 3>>]
LargeAmounts == {<<>>, TenPow12, <<1, 0, 0, 1>>}

RECURSIVE TenPow(_)
TenPow(k) ==
  IF k = 0 THEN <<1>>
  ELSE LET h == TenPow(k - 1) IN IF h = <<>> THEN <<>> ELSE BigMulSmall(h, 10)

Around(x) == {BigSub(x, <<1>>), x, BigAdd(x, <<1>>)}

\* the amounts of the fee runs: 1..MaxSmallAmount, and the neighbours of
\* the powers of ten and of two up to 10^12
FeeAmounts ==
  {a \in {N(n) : n \in 1..MaxSmallAmount}
          \cup UNION {Around(TenPow(k)) : k \in 3..12}
          \cup UNION {Around(BigPow2(k)) : k \in 8..39} : BigLe(a, TenPow12)}

Proposer == "miner"

Threads == 1..MaxInflight
Idle == [pc |-> "idle"]

VARIABLES
  chain,      \* Vec<Block>
  wallets,    \* DashMap<String, Wallet>, as a function on its keys
  tx_index,   \* DashMap<String, Vec<TransactionIndex>>
  pending,    \* pending_txs: Vec<Transaction>
  nonces,     \* DashMap<String, u64>
  db,         \* state_db: the sled store, [blocks, wallets]
  now,        \* what current_timestamp() returns
  mined,      \* the blocks mine_block has returned, in the callers' hands
  res,        \* the last call and what it returned
  issued,     \* per sender, the nonces create_transaction assigned since open/load
  foreign,    \* number of blocks add_block applied that mine_block did not return
  created,    \* number of successful create_transaction calls
  restarts,   \* number of close + load so far
  hung,       \* a call is blocked for ever on a map lock it already holds
  inflight,   \* per thread, the call it is in the middle of and the line it is at
  faults      \* number of add_block calls in which a write to the store failed

vars == <<chain, wallets, tx_index, pending, nonces, db, now, mined, res,
          issued, foreign, created, restarts, hung, inflight, faults>>

----------------------------------------------------------------------------
(* Hashing.  SHA-256 is modelled as collision-free: the digest of a byte   *)
(* string is the tagged string itself.                                     *)

Sha256(bytes) == <<"sha256", bytes>>

\* a signature over the tx_id alone
sign_tx_id_only(tx_id, sender) == Sha256(tx_id)

\* blockchain.rs:231-236
sign_transaction(tx_id, sender) == Sha256(tx_id \o sender)

\* blockchain.rs:239-244
verify_signature(tx) == Sha256(tx.tx_id \o tx.from) = tx.signature

\* blockchain.rs:247-258: the (address, balance) pairs in address order
calculate_state_root(temp) ==
  LET keys == SelectSeq(AddrOrder, LAMBDA k : k \in DOMAIN temp)
  IN  Sha256([i \in 1..Len(keys) |-> <<keys[i], temp[keys[i]]>>])

RECURSIVE ConcatTxIds(_)
ConcatTxIds(txs) ==
  IF txs = <<>> THEN "" ELSE Head(txs).tx_id \o ConcatTxIds(Tail(txs))

\* blockchain.rs:330-342: index and timestamp are 8 bytes each, then the
\* bytes of prev_hash, of state_root and of every tx_id
calculate_block_hash(block) ==
  Sha256(<<block.index, block.timestamp, block.prev_hash, block.state_root,
           ConcatTxIds(block.transactions)>>)

\* blockchain.rs:210
TxId(from, to, nonce, timestamp) ==
  from \o "-" \o to \o "-" \o ToString(nonce) \o "-" \o ToString(timestamp)

----------------------------------------------------------------------------
(* new                                                                     *)

NewWallet(balance) == [balance |-> balance, tx_count |-> 0]

\* blockchain.rs:90-98
Genesis(t) ==
  [index |-> 0, timestamp |-> t, transactions |-> <<>>, prev_hash |-> <<"0">>,
   hash |-> <<"genesis">>, proposer |-> "system", state_root |-> <<"genesis_root">>]

\* blockchain.rs:64-115
New(initial_wallets) ==
  /\ now = 1
  /\ wallets = [x \in DOMAIN initial_wallets |-> NewWallet(initial_wallets[x])]
  /\ nonces = [x \in DOMAIN initial_wallets |-> 0]
  /\ tx_index = [x \in DOMAIN initial_wallets |-> <<>>]
  /\ chain = <<Genesis(1)>>
  /\ pending = <<>>
  /\ db = [blocks |-> [i \in {0} |-> Genesis(1)],
           wallets |-> [x \in DOMAIN initial_wallets |-> NewWallet(initial_wallets[x])]]
  /\ mined = {}
  /\ res = [op |-> "new", ret |-> "Ok"]
  /\ issued = [x \in Addresses |-> <<>>]
  /\ foreign = 0
  /\ created = 0
  /\ restarts = 0
  /\ hung = FALSE
  /\ inflight = [th \in Threads |-> Idle]
  /\ faults = 0

\* the clock advances between calls
Tick ==
  /\ ~hung
  /\ now < MaxTime
  /\ now' = now + 1
  /\ UNCHANGED <<chain, wallets, tx_index, pending, nonces, db, mined, res,
                 issued, foreign, created, restarts, hung, inflight, faults>>

----------------------------------------------------------------------------
(* create_transaction                                                      *)

\* FeeOf on the amounts of the model, computed once
FeeTable == [a \in Amounts \cup LargeAmounts \cup FeeAmounts |-> FeeOf(a)]
Fee(amount) == FeeTable[amount]

\* blockchain.rs:178  let total_cost = amount + fee;
TotalCost(amount) == U64WrappingAdd(amount, Fee(amount))

\* blockchain.rs:168-185: the checks, in the order of the code.  A checked
\* build panics at line 178 when amount + fee overflows.
CtOutcome(w, from, amount, checked) ==
  IF amount = <<>> THEN "InvalidAmount"
  ELSE IF from \notin DOMAIN w THEN "UnknownSender"
  ELSE IF checked /\ U64AddOverflows(amount, Fee(amount)) THEN "Panic"
  ELSE IF BigLt(w[from].balance, TotalCost(amount)) THEN "InsufficientFunds"
  ELSE "Ok"

\* blockchain.rs:190-200: the three inserts, each replacing what the map
\* holds for `to`.  st is [wallets, tx_index, nonces, pending].
CtInsertRecipient(st, to) ==
  [st EXCEPT !.wallets = (to :> NewWallet(<<>>)) @@ @,
             !.tx_index = (to :> <<>>) @@ @,
             !.nonces = (to :> 0) @@ @]

\* blockchain.rs:189-201
CtEnsureRecipient(st, to) ==
  IF to \in DOMAIN st.wallets THEN st ELSE CtInsertRecipient(st, to)

\* blockchain.rs:204-207: entry(from).or_insert(0), then += 1
CtTakeNonce(st, from) ==
  [st EXCEPT !.nonces =
     (from :> (IF from \in DOMAIN @ THEN @[from] ELSE 0) + 1) @@ @]

\* blockchain.rs:209-225
CtEnqueue(st, from, to, amount, t) ==
  LET n == st.nonces[from]
      id == TxId(from, to, n, t)
      tx == [from |-> from, to |-> to, amount |-> amount, fee |-> Fee(amount),
             timestamp |-> t, tx_id |-> id,
             signature |-> sign_transaction(id, from), nonce |-> n]
  IN  [st EXCEPT !.pending = Append(@, tx)]

\* a create_transaction that looks up the recipient before the balance
CtEffectEager(st, out, from, to, amount, t) ==
  IF out = "Ok"
    THEN CtEnqueue(CtTakeNonce(CtEnsureRecipient(st, to), from), from, to, amount, t)
    ELSE IF out = "InsufficientFunds" THEN CtEnsureRecipient(st, to) ELSE st

\* blockchain.rs:162-228: every error return precedes the first mutation
CtEffect(st, out, from, to, amount, t) ==
  IF out = "Ok"
    THEN CtEnqueue(CtTakeNonce(CtEnsureRecipient(st, to), from), from, to, amount, t)
    ELSE st

CreateTransaction(from, to, amount) ==
  /\ ~hung
  /\ Len(pending) < MaxPending
  /\ created < MaxCreated
  /\ \E checked \in IF U64AddOverflows(amount, Fee(amount)) THEN BOOLEAN ELSE {TRUE} :
       LET out == CtOutcome(wallets, from, amount, checked)
           st0 == [wallets |-> wallets, tx_index |-> tx_index,
                   nonces |-> nonces, pending |-> pending]
           st == CtEffect(st0, out, from, to, amount, now)
       IN  /\ wallets' = st.wallets
           /\ tx_index' = st.tx_index
           /\ nonces' = st.nonces
           /\ pending' = st.pending
           /\ res' = [op |-> "create", ret |-> out]
           /\ issued' = IF out = "Ok"
                          THEN [issued EXCEPT ![from] = Append(@, st.nonces[from])]
                          ELSE issued
           /\ created' = IF out = "Ok" THEN created + 1 ELSE created
  /\ UNCHANGED <<chain, db, now, mined, foreign, restarts, hung, inflight, faults>>

(* create_transaction takes &self and holds no lock from the look-up of   *)
(* the recipient (line 189) to the inserts (lines 198-200), and none from  *)
(* drop(nonce_entry) (line 207) to the lock of the mempool (line 225):     *)
(* calls of other threads can run in between.  CtBegin is a call up to and *)
(* including line 189, CtTake is lines 190-207, CtFinish is the rest.      *)

\* the threads inside a create_transaction
Busy == {th \in Threads : inflight[th].pc \in {"line 190", "line 209"}}

\* blockchain.rs:168-189
CtBegin(th, from, to, amount) ==
  /\ ~hung
  /\ inflight[th] = Idle
  /\ Len(pending) + Cardinality(Busy) < MaxPending
  /\ created + Cardinality(Busy) < MaxCreated + 1
  /\ \E checked \in IF U64AddOverflows(amount, Fee(amount)) THEN BOOLEAN ELSE {TRUE} :
       LET out == CtOutcome(wallets, from, amount, checked)
       IN  IF out = "Ok"
             THEN /\ inflight' = [inflight EXCEPT ![th] =
                        [pc |-> "line 190", from |-> from, to |-> to, amount |-> amount,
                         absent |-> to \notin DOMAIN wallets]]
                  /\ UNCHANGED res
             ELSE /\ res' = [op |-> "create", ret |-> out]
                  /\ UNCHANGED inflight
  /\ UNCHANGED <<chain, wallets, tx_index, pending, nonces, db, now, mined,
                 issued, foreign, created, restarts, hung, faults>>

\* blockchain.rs:190-207: the inserts for an absent recipient, then the nonce
CtTake(th) ==
  /\ ~hung
  /\ inflight[th].pc = "line 190"
  /\ LET c == inflight[th]
         st0 == [wallets |-> wallets, tx_index |-> tx_index,
                 nonces |-> nonces, pending |-> pending]
         st1 == IF c.absent THEN CtInsertRecipient(st0, c.to) ELSE st0
         st == CtTakeNonce(st1, c.from)
     IN  /\ wallets' = st.wallets
         /\ tx_index' = st.tx_index
         /\ nonces' = st.nonces
         /\ issued' = [issued EXCEPT ![c.from] = Append(@, st.nonces[c.from])]
         /\ inflight' = [inflight EXCEPT ![th] =
               [pc |-> "line 209", from |-> c.from, to |-> c.to, amount |-> c.amount,
                current_nonce |-> st.nonces[c.from]]]
  /\ UNCHANGED <<chain, pending, db, now, mined, res, foreign, created, restarts,
                 hung, faults>>

\* blockchain.rs:209-227: the transaction is built from the nonce taken at
\* line 206 and pushed under the mempool lock
CtFinish(th) ==
  /\ ~hung
  /\ inflight[th].pc = "line 209"
  /\ LET c == inflight[th]
         st0 == [wallets |-> wallets, tx_index |-> tx_index,
                 nonces |-> (c.from :> c.current_nonce) @@ nonces, pending |-> pending]
     IN  pending' = CtEnqueue(st0, c.from, c.to, c.amount, now).pending
  /\ res' = [op |-> "create", ret |-> "Ok"]
  /\ created' = created + 1
  /\ inflight' = [inflight EXCEPT ![th] = Idle]
  /\ UNCHANGED <<chain, wallets, tx_index, nonces, db, now, mined, issued, foreign,
                 restarts, hung, faults>>

----------------------------------------------------------------------------
(* mine_block                                                              *)

EmptyMap == [x \in {} |-> 0]

\* blockchain.rs:269-276
MineInit(w) ==
  [valid |-> <<>>, temp |-> [x \in DOMAIN w |-> w[x].balance], tx_nonces |-> EmptyMap]

\* blockchain.rs:278-297, one pending transaction.  The sums of lines 291-294
\* are written as an unchecked build computes them.
MineStep(acc, tx) ==
  IF ~verify_signature(tx) THEN acc
  ELSE
    LET expected == IF tx.from \in DOMAIN acc.tx_nonces THEN acc.tx_nonces[tx.from] ELSE 0
    IN  IF tx.nonce # expected + 1
          THEN [acc EXCEPT !.tx_nonces = (tx.from :> expected) @@ @]
          ELSE
            LET acc1 == [acc EXCEPT !.tx_nonces = (tx.from :> tx.nonce) @@ @]
                sender_balance == IF tx.from \in DOMAIN acc.temp THEN acc.temp[tx.from] ELSE <<>>
                cost == U64WrappingAdd(tx.amount, tx.fee)
            IN  IF BigLe(cost, sender_balance)
                  THEN LET t1 == (tx.from :> U64WrappingSub(
                                       U64WrappingSub(sender_balance, tx.amount), tx.fee))
                                 @@ acc.temp
                           recipient_balance == IF tx.to \in DOMAIN t1 THEN t1[tx.to] ELSE <<>>
                           t2 == (tx.to :> U64WrappingAdd(recipient_balance, tx.amount)) @@ t1
                       IN  [acc1 EXCEPT !.temp = t2, !.valid = Append(@, tx)]
                  ELSE acc1

RECURSIVE MineLoop(_, _)
MineLoop(acc, txs) ==
  IF txs = <<>> THEN acc ELSE MineLoop(MineStep(acc, Head(txs)), Tail(txs))

\* blockchain.rs:303  pending.clear()
MinePendingAfter(pend, acc) == <<>>

\* blockchain.rs:306-324
MineSeal(ch, acc, proposer, t) ==
  LET last_block == ch[Len(ch)]
      unsealed == [index |-> last_block.index + 1, timestamp |-> t,
                   transactions |-> acc.valid, prev_hash |-> last_block.hash,
                   hash |-> <<"">>, proposer |-> proposer,
                   state_root |-> calculate_state_root(acc.temp)]
  IN  [unsealed EXCEPT !.hash = calculate_block_hash(unsealed)]

\* a mine_block that empties the mempool before it looks at the result
MineBlockClearFirst ==
  /\ ~hung
  /\ Cardinality(mined) < MaxMined
  /\ chain # <<>>
  /\ LET acc == MineLoop(MineInit(wallets), pending)
     IN  /\ pending' = <<>>
         /\ IF pending = <<>> \/ acc.valid = <<>>
              THEN /\ res' = [op |-> "mine", ret |-> "EmptyBlock"]
                   /\ UNCHANGED mined
              ELSE /\ mined' = mined \cup {MineSeal(chain, acc, Proposer, now)}
                   /\ res' = [op |-> "mine", ret |-> "Ok"]
  /\ UNCHANGED <<chain, wallets, tx_index, nonces, db, now, issued, foreign,
                 created, restarts, hung, inflight, faults>>

\* a mine_block that writes the shadow balances into the wallets
MineBlockCommits ==
  /\ ~hung
  /\ Cardinality(mined) < MaxMined
  /\ chain # <<>>
  /\ LET acc == MineLoop(MineInit(wallets), pending)
     IN  IF pending = <<>> \/ acc.valid = <<>>
           THEN /\ res' = [op |-> "mine", ret |-> "EmptyBlock"]
                /\ UNCHANGED <<pending, mined, wallets>>
           ELSE /\ pending' = MinePendingAfter(pending, acc)
                /\ mined' = mined \cup {MineSeal(chain, acc, Proposer, now)}
                /\ res' = [op |-> "mine", ret |-> "Ok"]
                /\ wallets' = [x \in DOMAIN wallets |->
                                 [wallets[x] EXCEPT !.balance = acc.temp[x]]]
  /\ UNCHANGED <<chain, tx_index, nonces, db, now, issued, foreign,
                 created, restarts, hung, inflight, faults>>

\* blockchain.rs:261-327
MineBlock ==
  /\ ~hung
  /\ Cardinality(mined) < MaxMined
  /\ chain # <<>>
  /\ LET acc == MineLoop(MineInit(wallets), pending)
     IN  IF pending = <<>> \/ acc.valid = <<>>
           THEN /\ res' = [op |-> "mine", ret |-> "EmptyBlock"]
                /\ UNCHANGED <<pending, mined>>
           ELSE /\ pending' = MinePendingAfter(pending, acc)
                /\ mined' = mined \cup {MineSeal(chain, acc, Proposer, now)}
                /\ res' = [op |-> "mine", ret |-> "Ok"]
  /\ UNCHANGED <<chain, wallets, tx_index, nonces, db, now, issued, foreign,
                 created, restarts, hung, inflight, faults>>

----------------------------------------------------------------------------
(* add_block                                                               *)

\* header checks without the comparison of the recomputed hash
AbValidateNoHash(ch, block) ==
  LET last_block == ch[Len(ch)]
  IN  IF block.index # last_block.index + 1 THEN "BadIndex"
      ELSE IF block.prev_hash # last_block.hash THEN "BadLink"
      ELSE "Ok"

\* header checks without the comparison of prev_hash
AbValidateNoLink(ch, block) ==
  LET last_block == ch[Len(ch)]
  IN  IF block.index # last_block.index + 1 THEN "BadIndex"
      ELSE IF calculate_block_hash(block) # block.hash THEN "BadHash"
      ELSE "Ok"

\* blockchain.rs:346-361
AbValidate(ch, block) ==
  LET last_block == ch[Len(ch)]
  IN  IF block.index # last_block.index + 1 THEN "BadIndex"
      ELSE IF block.prev_hash # last_block.hash THEN "BadLink"
      ELSE IF calculate_block_hash(block) # block.hash THEN "BadHash"
      ELSE "Ok"

\* blockchain.rs:390  position(|t| t.tx_id == tx.tx_id): the first match, from 0
PositionOf(txs, id) ==
  (CHOOSE i \in 1..Len(txs) :
      /\ txs[i].tx_id = id
      /\ \A j \in 1..(i - 1) : txs[j].tx_id # id) - 1

\* blockchain.rs:367-371: the debit, when the sender has a wallet
AbDebit(w, tx) ==
  IF tx.from \in DOMAIN w
    THEN [w EXCEPT ![tx.from] =
            [balance |-> U64WrappingSub(@.balance, U64WrappingAdd(tx.amount, tx.fee)),
             tx_count |-> @.tx_count + 1]]
    ELSE w

\* line 368 overflows: amount + fee, or the subtraction
AbDebitOverflows(w, tx) ==
  /\ tx.from \in DOMAIN w
  /\ \/ U64AddOverflows(tx.amount, tx.fee)
     \/ U64SubOverflows(w[tx.from].balance, U64WrappingAdd(tx.amount, tx.fee))

\* a credit that hands the fee to the recipient as well
AbCreditWithFee(w, tx) ==
  LET w1 == IF tx.to \in DOMAIN w THEN w ELSE (tx.to :> NewWallet(<<>>)) @@ w
  IN  [w1 EXCEPT ![tx.to].balance = U64WrappingAdd(@, U64WrappingAdd(tx.amount, tx.fee))]

\* blockchain.rs:373-382: entry(to).or_insert_with(..), then the credit
AbCredit(w, tx) ==
  LET w1 == IF tx.to \in DOMAIN w THEN w ELSE (tx.to :> NewWallet(<<>>)) @@ w
  IN  [w1 EXCEPT ![tx.to].balance = U64WrappingAdd(@, tx.amount)]

AbCreditOverflows(w, tx) ==
  tx.to \in DOMAIN w /\ U64AddOverflows(w[tx.to].balance, tx.amount)

\* blockchain.rs:385-399: one entry pushed for an address
AbIndexPush(ix, addr, tx, block) ==
  LET e == [tx_id |-> tx.tx_id, block_index |-> block.index,
            tx_index_in_block |-> PositionOf(block.transactions, tx.tx_id)]
  IN  (addr :> Append(IF addr \in DOMAIN ix THEN ix[addr] ELSE <<>>, e)) @@ ix

\* blockchain.rs:366-400, one transaction of the block.  st is
\* [wallets, tx_index, stop]; stop is "" while the loop runs.
\*  - checked: the build panics on u64 overflow (lines 368, 381).
\*  - sameShard: tx.from and tx.to fall under the same shard lock of tx_index.
\*    The guard user_txs of line 385 is alive at line 393, and a DashMap
\*    shard lock is not reentrant: entry(tx.to) then never returns.
ApplyTx(st, tx, block, checked, sameShard) ==
  IF st.stop # "" THEN st
  ELSE IF checked /\ AbDebitOverflows(st.wallets, tx) THEN [st EXCEPT !.stop = "Panic"]
  ELSE
    LET w1 == AbDebit(st.wallets, tx)
    IN  IF checked /\ AbCreditOverflows(w1, tx)
          THEN [st EXCEPT !.wallets = w1, !.stop = "Panic"]
          ELSE
            LET w2 == AbCredit(w1, tx)
                ix1 == AbIndexPush(st.tx_index, tx.from, tx, block)
            IN  IF sameShard
                  THEN [wallets |-> w2, tx_index |-> ix1, stop |-> "Hang"]
                  ELSE [wallets |-> w2,
                        tx_index |-> AbIndexPush(ix1, tx.to, tx, block),
                        stop |-> ""]

\* k: the first transaction of the block whose two different addresses share
\* a shard of tx_index (0: none does); equal addresses always do
RECURSIVE ApplyLoop(_, _, _, _, _)
ApplyLoop(st, i, block, checked, k) ==
  IF i > Len(block.transactions) THEN st
  ELSE LET tx == block.transactions[i]
       IN  ApplyLoop(ApplyTx(st, tx, block, checked, tx.from = tx.to \/ i = k),
                     i + 1, block, checked, k)

\* the shard choices k that the block allows: the hasher is fixed for the
\* life of the map, so the pair of transaction k has not passed before in
\* the block
ShardChoices(block) ==
  {0} \cup {k \in 1..Len(block.transactions) :
              LET tx == block.transactions[k]
              IN  /\ tx.from # tx.to
                  /\ \A j \in 1..(k - 1) :
                       {block.transactions[j].from, block.transactions[j].to}
                         # {tx.from, tx.to}}

\* blockchain.rs:423-430 and 407-413: the block under block:<index>, then
\* every wallet of the map under wallet:<address>
AbPersist(store, block, w) ==
  [blocks |-> (block.index :> block) @@ store.blocks,
   wallets |-> w @@ store.wallets]

\* blockchain.rs:407-413: `let _ = self.state_db.insert(..)` drops the
\* result of each wallet write; lost are the addresses whose write failed
AbPersistLossy(store, block, w, lost) ==
  AbPersist(store, block, [x \in (DOMAIN w) \ lost |-> w[x]])

\* what the store does with the writes of one add_block: block is whether
\* persist_block succeeds (line 403), lost the wallet writes that fail
Healthy == [block |-> TRUE, lost |-> {}]
StoreOutcomes ==
  {Healthy, [block |-> FALSE, lost |-> {}]}
    \cup {[block |-> TRUE, lost |-> l] : l \in (SUBSET Callers) \ {{}}}

\* blockchain.rs:345-420
AddBlockIo(block, checked, k, io) ==
  /\ ~hung
  /\ chain # <<>>
  /\ Len(chain) < MaxChain
  /\ block \notin mined => foreign < MaxForeign
  /\ io # Healthy => faults < MaxFaults
  /\ LET v == AbValidate(chain, block)
         st == ApplyLoop([wallets |-> wallets, tx_index |-> tx_index, stop |-> ""],
                         1, block, checked, k)
     IN  IF v # "Ok"
           THEN /\ res' = [op |-> "add", ret |-> v]
                /\ UNCHANGED <<chain, wallets, tx_index, db, foreign, hung, faults>>
           ELSE /\ wallets' = st.wallets
                /\ tx_index' = st.tx_index
                /\ IF st.stop = "" /\ io.block
                     THEN /\ db' = AbPersistLossy(db, block, st.wallets, io.lost)
                          /\ chain' = Append(chain, block)
                          /\ res' = [op |-> "add", ret |-> "Ok"]
                          /\ hung' = FALSE
                     ELSE IF st.stop = ""
                     THEN /\ res' = [op |-> "add", ret |-> "PersistenceError"]
                          /\ hung' = FALSE
                          /\ UNCHANGED <<chain, db>>
                     ELSE /\ res' = [op |-> "add", ret |-> st.stop]
                          /\ hung' = (st.stop = "Hang")
                          /\ UNCHANGED <<chain, db>>
                /\ foreign' = IF block \in mined THEN foreign ELSE foreign + 1
                /\ faults' = IF st.stop = "" /\ io # Healthy THEN faults + 1 ELSE faults
  /\ UNCHANGED <<pending, nonces, now, mined, issued, created, restarts, inflight>>

\* add_block on a store whose writes succeed
AddBlock(block, checked, k) == AddBlockIo(block, checked, k, Healthy)

(* add_block takes &self.  It holds the chain mutex for the header checks  *)
(* only (drop(chain), line 364) and takes it again for the push (line      *)
(* 416); the guard of the sender's wallet is released at line 371, before  *)
(* the recipient's entry is taken at line 373.  Calls of other threads can *)
(* run at each of these places.  AbBegin is a call up to line 364,         *)
(* AbDebitStep lines 367-371 and AbCreditStep lines 373-400 of one         *)
(* transaction, AbCommit lines 403-419.                                    *)

\* the threads inside an add_block
Adding == {th \in Threads : inflight[th].pc \in {"line 367", "line 373", "line 403"}}

\* blockchain.rs:346-364
AbBegin(th, block, checked) ==
  /\ ~hung
  /\ inflight[th] = Idle
  /\ chain # <<>>
  /\ Len(chain) + Cardinality(Adding) < MaxChain
  /\ LET v == AbValidate(chain, block)
     IN  IF v # "Ok"
           THEN res' = [op |-> "add", ret |-> v] /\ UNCHANGED inflight
           ELSE /\ inflight' = [inflight EXCEPT ![th] =
                      [pc |-> IF block.transactions = <<>> THEN "line 403" ELSE "line 367",
                       block |-> block, i |-> 1, checked |-> checked]]
                /\ UNCHANGED res
  /\ UNCHANGED <<chain, wallets, tx_index, pending, nonces, db, now, mined,
                 issued, foreign, created, restarts, hung, faults>>

\* blockchain.rs:367-371, transaction i of the block
AbDebitStep(th) ==
  /\ ~hung
  /\ inflight[th].pc = "line 367"
  /\ LET c == inflight[th]
         tx == c.block.transactions[c.i]
     IN  IF c.checked /\ AbDebitOverflows(wallets, tx)
           THEN /\ res' = [op |-> "add", ret |-> "Panic"]
                /\ inflight' = [inflight EXCEPT ![th] = Idle]
                /\ UNCHANGED wallets
           ELSE /\ wallets' = AbDebit(wallets, tx)
                /\ inflight' = [inflight EXCEPT ![th].pc = "line 373"]
                /\ UNCHANGED res
  /\ UNCHANGED <<chain, tx_index, pending, nonces, db, now, mined,
                 issued, foreign, created, restarts, hung, faults>>

\* blockchain.rs:373-400, transaction i of the block
AbCreditStep(th) ==
  /\ ~hung
  /\ inflight[th].pc = "line 373"
  /\ LET c == inflight[th]
         tx == c.block.transactions[c.i]
         ix1 == AbIndexPush(tx_index, tx.from, tx, c.block)
     IN  IF c.checked /\ AbCreditOverflows(wallets, tx)
           THEN /\ res' = [op |-> "add", ret |-> "Panic"]
                /\ inflight' = [inflight EXCEPT ![th] = Idle]
                /\ UNCHANGED <<wallets, tx_index, hung>>
           ELSE IF tx.from = tx.to
           THEN /\ wallets' = AbCredit(wallets, tx)
                /\ tx_index' = ix1
                /\ res' = [op |-> "add", ret |-> "Hang"]
                /\ hung' = TRUE
                /\ UNCHANGED inflight
           ELSE /\ wallets' = AbCredit(wallets, tx)
                /\ tx_index' = AbIndexPush(ix1, tx.to, tx, c.block)
                /\ inflight' = [inflight EXCEPT ![th] =
                      IF c.i < Len(c.block.transactions)
                        THEN [c EXCEPT !.pc = "line 367", !.i = c.i + 1]
                        ELSE [c EXCEPT !.pc = "line 403"]]
                /\ UNCHANGED <<res, hung>>
  /\ UNCHANGED <<chain, pending, nonces, db, now, mined,
                 issued, foreign, created, restarts, faults>>

\* blockchain.rs:403-419
AbCommit(th) ==
  /\ ~hung
  /\ inflight[th].pc = "line 403"
  /\ db' = AbPersist(db, inflight[th].block, wallets)
  /\ chain' = Append(chain, inflight[th].block)
  /\ res' = [op |-> "add", ret |-> "Ok"]
  /\ inflight' = [inflight EXCEPT ![th] = Idle]
  /\ UNCHANGED <<wallets, tx_index, pending, nonces, now, mined,
                 issued, foreign, created, restarts, hung, faults>>

(* The blocks a caller may hand to add_block: the ones mine_block returned, *)
(* and blocks the caller makes up from a transaction of the chain          *)
(* (get_chain), with a header that fits the tip or is off in one field.    *)

RECURSIVE SeqRange(_)
SeqRange(s) == IF s = <<>> THEN {} ELSE {Head(s)} \cup SeqRange(Tail(s))

ChainTxs(ch) == UNION {SeqRange(ch[i].transactions) : i \in 1..Len(ch)}

ForgeBlock(txs, variant) ==
  LET tip == chain[Len(chain)]
      unsealed == [index |-> tip.index + (IF variant = "index" THEN 2 ELSE 1),
                   timestamp |-> now, transactions |-> txs,
                   prev_hash |-> IF variant = "link" THEN <<"bad">> ELSE tip.hash,
                   hash |-> <<"">>, proposer |-> Proposer,
                   state_root |-> <<"forged_root">>]
  IN  [unsealed EXCEPT !.hash = IF variant = "hash" THEN <<"bad">>
                                ELSE calculate_block_hash(unsealed)]

ForgedBlocks ==
  IF chain = <<>> THEN {}
  ELSE {ForgeBlock(<<t>>, variant) :
          t \in ChainTxs(chain), variant \in {"ok", "index", "link", "hash"}}

CallerBlocks == mined \cup ForgedBlocks

(* add_block takes any Block value and looks at its header only: a caller *)
(* can hand it a block with a transaction that create_transaction never   *)
(* made, or a mined block with a transaction changed.                     *)

\* a transaction written by the caller, with the fields as
\* create_transaction would fill them for a first transaction of `from`
MadeUpTx(from, to, amount) ==
  LET id == TxId(from, to, 1, now)
  IN  [from |-> from, to |-> to, amount |-> amount, fee |-> Fee(amount),
       timestamp |-> now, tx_id |-> id,
       signature |-> sign_transaction(id, from), nonce |-> 1]

\* blocks on the present tip that hold one such transaction, of any
\* address, with or without a wallet, to a caller's address
MadeUpBlocks ==
  IF chain = <<>> THEN {}
  ELSE {ForgeBlock(<<MadeUpTx(from, to, amount)>>, "ok") :
          from \in Addresses, to \in Callers, amount \in Amounts \ {<<>>}}

\* the transactions that differ from tx in the amount, the fee, the sender
\* or the recipient only; tx_id and signature are kept
AlteredTxs(tx) ==
  ({[tx EXCEPT !.amount = am] : am \in Amounts \ {<<>>}}
     \cup {[tx EXCEPT !.fee = <<>>]}
     \cup {[tx EXCEPT !.from = x] : x \in Addresses}
     \cup {[tx EXCEPT !.to = x] : x \in Addresses}) \ {tx}

\* the blocks that differ from block in one transaction altered so; the
\* header, with the stored hash, is kept
AlteredBlocks(block) ==
  UNION {{[block EXCEPT !.transactions[i] = tx] : tx \in AlteredTxs(block.transactions[i])} :
           i \in 1..Len(block.transactions)}

----------------------------------------------------------------------------
(* close, then load                                                        *)

\* blockchain.rs:126-138: block:0, block:1, .. up to the first missing key
RECURSIVE LoadChain(_, _)
LoadChain(blocks, idx) ==
  IF idx \in DOMAIN blocks THEN <<blocks[idx]>> \o LoadChain(blocks, idx + 1) ELSE <<>>

\* blockchain.rs:118-159, on what the store holds when it is opened
LoadFrom(store) ==
  /\ restarts < MaxRestarts
  /\ restarts' = restarts + 1
  /\ chain' = LoadChain(store.blocks, 0)
  /\ wallets' = store.wallets
  /\ nonces' = [x \in DOMAIN store.wallets |-> 0]
  /\ tx_index' = [x \in DOMAIN store.wallets |-> <<>>]
  /\ pending' = <<>>
  /\ issued' = [x \in Addresses |-> <<>>]
  /\ res' = [op |-> "load", ret |-> "Ok"]
  /\ hung' = FALSE
  /\ inflight' = [th \in Threads |-> Idle]
  /\ UNCHANGED <<now, mined, foreign, created, faults>>

\* close, then load
Load == LoadFrom(db) /\ db' = db

\* a hash that differs from h in one byte
AlteredHash(h) == <<"altered", h>>

\* the store with the hash field of block:<idx> altered on disk
AlterBlock(store, idx) ==
  [store EXCEPT !.blocks[idx].hash = AlteredHash(@)]

\* close, alter the record block:<idx> on disk, load.  load deserializes
\* the blocks as the store has them and checks nothing (lines 126-138).
AlterAndLoad(idx) ==
  /\ idx \in DOMAIN db.blocks
  /\ db' = AlterBlock(db, idx)
  /\ LoadFrom(AlterBlock(db, idx))

\* blockchain.rs:119: sled::open creates the store when the directory
\* "blockchain_state" does not hold one; it then has no record
EmptyStore == [blocks |-> [i \in {} |-> 0], wallets |-> [x \in {} |-> 0]]

\* close, then load in a working directory whose "blockchain_state" holds
\* nothing: load takes no path, and new was given its db_path by the caller
LoadFresh ==
  /\ db' = EmptyStore
  /\ LoadFrom(EmptyStore)

\* blockchain.rs:346-347 on an empty chain: chain.last() is None and
\* unwrap() panics with the chain mutex held, which poisons it
AddBlockOnEmpty(block) ==
  /\ ~hung
  /\ chain = <<>>
  /\ res' = [op |-> "add", ret |-> "Panic"]
  /\ hung' = TRUE
  /\ UNCHANGED <<chain, wallets, tx_index, pending, nonces, db, now, mined,
                 issued, foreign, created, restarts, inflight, faults>>

\* the process stops inside add_block after persist_block (line 403) and
\* after the wallet writes of lines 407-413 for the addresses in written
\* (the map iterator decides their order); then load.  The store keeps
\* what was written.
CrashInAddBlock(block, checked, written) ==
  /\ ~hung
  /\ chain # <<>>
  /\ Len(chain) < MaxChain
  /\ AbValidate(chain, block) = "Ok"
  /\ LET st == ApplyLoop([wallets |-> wallets, tx_index |-> tx_index, stop |-> ""],
                         1, block, checked, 0)
         store == AbPersistLossy(db, block, st.wallets, (DOMAIN st.wallets) \ written)
     IN  /\ st.stop = ""
         /\ written \subseteq DOMAIN st.wallets
         /\ written # DOMAIN st.wallets
         /\ db' = store
         /\ LoadFrom(store)

\* blockchain.rs:433-438
get_wallet(w, address) ==
  IF address \in DOMAIN w THEN <<"Ok", w[address]>> ELSE <<"Err", "Wallet not found">>

\* blockchain.rs:517-519
get_balance(w, address) ==
  LET r == get_wallet(w, address)
  IN  IF r[1] = "Ok" THEN <<"Ok", r[2].balance>> ELSE r

\* blockchain.rs:442-445: the wallets as the iterator of the map yields them;
\* iter is the order of the keys, which the hasher of the map decides
CollectWallets(w, iter) ==
  [i \in 1..Len(iter) |->
     [address |-> iter[i], balance |-> w[iter[i]].balance, tx_count |-> w[iter[i]].tx_count]]

\* the orders in which the iterator may yield the keys of the map
IterOrders(w) ==
  {f \in [1..Cardinality(DOMAIN w) -> DOMAIN w] :
     \A i, j \in 1..Cardinality(DOMAIN w) : f[i] = f[j] => i = j}

\* a sort step that leaves the element where the iterator put it
InsertLast(sorted, e) == Append(sorted, e)

\* one step of the stable sort by b.balance.cmp(&a.balance): e goes behind
\* every element that is not smaller, before the first smaller one
InsertDesc(sorted, e) ==
  LET smaller == {i \in 1..Len(sorted) : BigLt(sorted[i].balance, e.balance)}
      at == IF smaller = {} THEN Len(sorted) + 1
            ELSE CHOOSE i \in smaller : \A j \in smaller : i <= j
  IN  SubSeq(sorted, 1, at - 1) \o <<e>> \o SubSeq(sorted, at, Len(sorted))

\* blockchain.rs:446  wallets.sort_by(|a, b| b.balance.cmp(&a.balance))
RECURSIVE SortByBalanceDesc(_, _)
SortByBalanceDesc(sorted, rest) ==
  IF rest = <<>> THEN sorted
  ELSE SortByBalanceDesc(InsertDesc(sorted, Head(rest)), Tail(rest))

\* blockchain.rs:441-448
get_leaderboard(w, iter) == SortByBalanceDesc(<<>>, CollectWallets(w, iter))

\* a get_leaderboard call; the scan is taken here as one step, which is
\* the scan of a thread that is not preempted while it runs
GetLeaderboard(iter) ==
  /\ ~hung
  /\ res' = [op |-> "leaderboard", ret |-> "Ok", value |-> get_leaderboard(wallets, iter)]
  /\ UNCHANGED <<chain, wallets, tx_index, pending, nonces, db, now, mined,
                 issued, foreign, created, restarts, hung, inflight, faults>>

\* blockchain.rs:451-467: the entries of the address, each looked up in the
\* chain; an entry without a block or a transaction at its place is skipped
RECURSIVE LookupEntries(_, _)
LookupEntries(ch, entries) ==
  IF entries = <<>> THEN <<>>
  ELSE LET e == Head(entries)
           found == IF e.block_index + 1 \in 1..Len(ch)
                      THEN LET txs == ch[e.block_index + 1].transactions
                           IN  IF e.tx_index_in_block + 1 \in 1..Len(txs)
                                 THEN <<txs[e.tx_index_in_block + 1]>> ELSE <<>>
                      ELSE <<>>
       IN  found \o LookupEntries(ch, Tail(entries))

get_user_transactions(ch, ix, address) ==
  IF address \in DOMAIN ix THEN LookupEntries(ch, ix[address]) ELSE <<>>

\* a verify_chain that compares the links only
verify_chainLinksOnly(ch) ==
  \A i \in 2..Len(ch) : ch[i].prev_hash = ch[i - 1].hash

\* blockchain.rs:479-497
verify_chain(ch) ==
  \A i \in 2..Len(ch) :
    /\ ch[i].prev_hash = ch[i - 1].hash
    /\ calculate_block_hash(ch[i]) = ch[i].hash

\* blockchain.rs:500-514: what get_stats reports of the chain
StatsOf(ch) ==
  [chain_height |-> Len(ch) - 1, total_blocks |-> Len(ch), is_valid |-> verify_chain(ch)]

\* get_stats locks the chain mutex (line 501) and, with the guard alive,
\* calls verify_chain (line 513), which locks the same mutex (line 480).
\* A std::sync::Mutex locked again by the thread that holds it does not
\* return: the second lock() blocks for ever or panics.
RelockOutcomes == {"Hang", "Panic"}

\* blockchain.rs:500-515.  After the panic the chain and mempool mutexes
\* are poisoned and after the hang they stay locked: in both cases no later
\* call gets at the chain, which hung records.
GetStats ==
  /\ ~hung
  /\ chain # <<>>
  /\ \E out \in RelockOutcomes : res' = [op |-> "stats", ret |-> out]
  /\ hung' = TRUE
  /\ UNCHANGED <<chain, wallets, tx_index, pending, nonces, db, now, mined,
                 issued, foreign, created, restarts, inflight, faults>>

----------------------------------------------------------------------------

Init == New(InitialWallets)

\* pairs: the (from, to) the callers use; collide: two different addresses
\* may share a shard of tx_index
NextWith(pairs, amounts, collide) ==
  \/ Tick
  \/ \E p \in pairs, amount \in amounts : CreateTransaction(p[1], p[2], amount)
  \/ MineBlock
  \/ \E block \in CallerBlocks, checked \in BOOLEAN :
       \E k \in IF collide THEN ShardChoices(block) ELSE {0} :
         AddBlock(block, checked, k)
  \/ Load

\* the callers transfer between a and b
Transfers == {p \in Callers \X Callers : p[1] # p[2]}

Next == NextWith(Transfers, Amounts, FALSE)

Spec == Init /\ [][Next]_vars

\* concurrent callers of one engine: create_transaction calls overlap with
\* each other and with mine_block and add_block of mined blocks
NextConc ==
  \/ \E th \in Threads, p \in Transfers, amount \in Amounts :
       CtBegin(th, p[1], p[2], amount)
  \/ \E th \in Threads : CtTake(th)
  \/ \E th \in Threads : CtFinish(th)
  \/ MineBlock
  \/ \E block \in mined, checked \in BOOLEAN : AddBlock(block, checked, 0)

SpecConc == Init /\ [][NextConc]_vars

\* concurrent callers of one engine: add_block calls overlap with each
\* other and with get_leaderboard, create_transaction and mine_block
NextAdd ==
  \/ \E p \in Transfers, amount \in Amounts : CreateTransaction(p[1], p[2], amount)
  \/ MineBlock
  \/ \E th \in Threads, block \in mined, checked \in BOOLEAN : AbBegin(th, block, checked)
  \/ \E th \in Threads : AbDebitStep(th)
  \/ \E th \in Threads : AbCreditStep(th)
  \/ \E th \in Threads : AbCommit(th)
  \/ \E iter \in IterOrders(wallets) : GetLeaderboard(iter)

SpecAdd == Init /\ [][NextAdd]_vars

\* runs in which a caller may also pay itself, and in which two different
\* addresses may fall under the same shard lock of tx_index
NextSelf == NextWith(Callers \X Callers, Amounts, TRUE)

SpecSelf == Init /\ [][NextSelf]_vars

\* runs in which the callers ask for the stats
NextStats ==
  \/ \E p \in Transfers, amount \in Amounts : CreateTransaction(p[1], p[2], amount)
  \/ MineBlock
  \/ \E block \in mined, checked \in BOOLEAN : AddBlock(block, checked, 0)
  \/ GetStats

SpecStats == Init /\ [][NextStats]_vars

\* runs on a store that may fail a write: the callers add mined blocks
NextIo ==
  \/ \E p \in Transfers, amount \in Amounts : CreateTransaction(p[1], p[2], amount)
  \/ MineBlock
  \/ \E block \in mined, checked \in BOOLEAN, io \in StoreOutcomes :
       AddBlockIo(block, checked, 0, io)
  \/ Load

SpecIo == Init /\ [][NextIo]_vars

\* runs in which a block record is altered on disk while the engine is closed
NextAlter ==
  \/ \E p \in Transfers, amount \in Amounts : CreateTransaction(p[1], p[2], amount)
  \/ MineBlock
  \/ \E block \in mined, checked \in BOOLEAN : AddBlock(block, checked, 0)
  \/ Load
  \/ \E idx \in 0..(MaxChain - 1) : AlterAndLoad(idx)

SpecAlter == Init /\ [][NextAlter]_vars

\* runs in which the engine may be loaded from a store that holds nothing
NextFresh ==
  \/ \E p \in Transfers, amount \in Amounts : CreateTransaction(p[1], p[2], amount)
  \/ MineBlock
  \/ \E block \in mined, checked \in BOOLEAN : AddBlock(block, checked, 0)
  \/ \E block \in mined : AddBlockOnEmpty(block)
  \/ Load
  \/ LoadFresh

SpecFresh == Init /\ [][NextFresh]_vars

\* runs in which the process may stop inside add_block
NextCrash ==
  \/ \E p \in Transfers, amount \in Amounts : CreateTransaction(p[1], p[2], amount)
  \/ MineBlock
  \/ \E block \in mined, checked \in BOOLEAN : AddBlock(block, checked, 0)
  \/ Load
  \/ \E block \in mined, checked \in BOOLEAN, written \in SUBSET Callers :
       CrashInAddBlock(block, checked, written)

SpecCrash == Init /\ [][NextCrash]_vars

\* runs in which the callers also hand add_block blocks of their own
\* making, in a build without overflow checks (the release profile)
NextForge ==
  \/ \E p \in Transfers, amount \in Amounts : CreateTransaction(p[1], p[2], amount)
  \/ MineBlock
  \/ \E block \in mined : AddBlock(block, FALSE, 0)
  \/ \E block \in MadeUpBlocks : AddBlock(block, FALSE, 0)
  \/ \E block \in mined : \E altered \in AlteredBlocks(block) : AddBlock(altered, FALSE, 0)

SpecForge == Init /\ [][NextForge]_vars

\* runs of an engine opened with three wallets, every address paying every other
BoardWallets == ("a" :> N(1000)) @@ ("a-a" :> N(500)) @@ ("b" :> N(750))
AllTransfers == {p \in Addresses \X Addresses : p[1] # p[2]}
InitBoard == New(BoardWallets)
NextBoard ==
  \/ \E p \in AllTransfers, amount \in Amounts : CreateTransaction(p[1], p[2], amount)
  \/ MineBlock
  \/ \E block \in mined, checked \in BOOLEAN : AddBlock(block, checked, 0)

SpecBoard == InitBoard /\ [][NextBoard]_vars

\* runs with large amounts: a holds 3 * 10^12
InitCap == New(RichWallets)
NextCap == NextWith(Transfers, LargeAmounts, FALSE)
SpecCap == InitCap /\ [][NextCap]_vars

\* the fee runs: one transfer of a to b, of any of FeeAmounts
FeeCreate(amount) == pending = <<>> /\ CreateTransaction("a", "b", amount)
NextFee == \E amount \in FeeAmounts : FeeCreate(amount)
SpecFee == InitCap /\ [][NextFee]_vars

----------------------------------------------------------------------------
(* Properties                                                              *)

\* total_coins of get_stats (blockchain.rs:504): the sum of the balances
TotalCoins(w) == BigSum([i \in 1..Len(AddrOrder) |->
                   IF AddrOrder[i] \in DOMAIN w THEN w[AddrOrder[i]].balance ELSE <<>>])

RECURSIVE FeesOfTxs(_)
FeesOfTxs(txs) ==
  IF txs = <<>> THEN <<>> ELSE BigAdd(Head(txs).fee, FeesOfTxs(Tail(txs)))

\* the fees of the transactions in the blocks of the chain
RECURSIVE FeesOfChain(_)
FeesOfChain(ch) ==
  IF ch = <<>> THEN <<>>
  ELSE BigAdd(FeesOfTxs(Head(ch).transactions), FeesOfChain(Tail(ch)))

InitialTotal == TotalCoins([x \in DOMAIN InitialWallets |-> NewWallet(InitialWallets[x])])

\* C1: conservation of supply.  While every block add_block has applied is
\* one that mine_block returned, the sum of the wallet balances plus the
\* fees of the transactions in the chain is the initial total.
C1_Conservation ==
  foreign = 0 => BigAdd(TotalCoins(wallets), FeesOfChain(chain)) = InitialTotal

\* two mined blocks are in the chain: b received 600 and 100, 7 went in fees
C1_Witness ==
  /\ foreign = 0
  /\ Len(chain) = 3
  /\ "b" \in DOMAIN wallets
  /\ wallets["b"].balance = N(700)
  /\ TotalCoins(wallets) = N(993)

\* the nonces of the transactions of `from` in the chain, in chain order
RECURSIVE NoncesOfTxs(_, _)
NoncesOfTxs(txs, from) ==
  IF txs = <<>> THEN <<>>
  ELSE (IF Head(txs).from = from THEN <<Head(txs).nonce>> ELSE <<>>)
         \o NoncesOfTxs(Tail(txs), from)

RECURSIVE AppliedNonces(_, _)
AppliedNonces(ch, from) ==
  IF ch = <<>> THEN <<>>
  ELSE NoncesOfTxs(Head(ch).transactions, from) \o AppliedNonces(Tail(ch), from)

CountsUp(s) == s = [i \in 1..Len(s) |-> i]

\* C2: monotone applied nonces.  In an engine that was not restarted and
\* was handed mined blocks only, the nonces of every sender's transactions
\* in the chain, in chain order, are 1, 2, 3, ..
C2_MonotoneAppliedNonces ==
  (foreign = 0 /\ restarts = 0) =>
     \A from \in Addresses : CountsUp(AppliedNonces(chain, from))

\* C4: within one engine instance the nonces that create_transaction has
\* assigned to a sender are 1, 2, 3, ..
C4_AssignedNonces == \A from \in Addresses : CountsUp(issued[from])

\* C3: chain linkage.  Every block after the genesis block names the hash
\* of its predecessor and carries the hash recomputed from its own fields,
\* whatever blocks add_block was handed: verify_chain returns true.
C3_ChainLinkage == verify_chain(chain)

\* add_block has linked a mined block and then a block made up by the caller
C3_Witness ==
  /\ Len(chain) = 3
  /\ foreign = 1
  /\ res = [op |-> "add", ret |-> "Ok"]

\* the transaction the step has appended to the mempool
Enqueued == pending'[Len(pending')]

\* C5: a nonce that create_transaction assigns is greater than every nonce
\* the sender has in the chain, also after close and load.
C5_NonceAcrossRestart ==
  [][Len(pending') = Len(pending) + 1 =>
       \A old \in ChainTxs(chain) :
          old.from = Enqueued.from => Enqueued.nonce > old.nonce]_vars

RECURSIVE TxIdsOfChain(_)
TxIdsOfChain(ch) ==
  IF ch = <<>> THEN <<>>
  ELSE [i \in 1..Len(Head(ch).transactions) |-> Head(ch).transactions[i].tx_id]
         \o TxIdsOfChain(Tail(ch))

\* C6: no replay.  In an engine that was not restarted, whatever blocks
\* add_block was handed, no tx_id is applied twice: the chain holds every
\* tx_id at most once.
C6_NoReplay ==
  restarts = 0 =>
    LET ids == TxIdsOfChain(chain)
    IN  \A i, j \in 1..Len(ids) : ids[i] = ids[j] => i = j

\* C7: a create_transaction that returns InvalidAmount, UnknownSender or
\* InsufficientFunds leaves the mempool, wallets, nonces and tx_index as
\* they were.
C7_NoEffectOnFailure ==
  [][\A p \in Transfers, amount \in Amounts :
       (CreateTransaction(p[1], p[2], amount)
          /\ res'.ret \in {"InvalidAmount", "UnknownSender", "InsufficientFunds"})
         => UNCHANGED <<pending, wallets, nonces, tx_index>>]_vars

\* a transfer to b has failed with InsufficientFunds and b has no wallet
C7_Witness ==
  /\ res = [op |-> "create", ret |-> "InsufficientFunds"]
  /\ "b" \notin DOMAIN wallets
  /\ pending = <<>>

\* C8: create_transaction returns InvalidAmount for an amount of 0 or
\* above 10^12, and enqueues nothing.
C8_AmountCap ==
  [][\A p \in Transfers, amount \in LargeAmounts :
       (CreateTransaction(p[1], p[2], amount)
          /\ (amount = <<>> \/ BigLt(TenPow12, amount)))
         => (res'.ret = "InvalidAmount" /\ pending' = pending)]_vars

\* max(1, ceil(amount / 100)) in integers
FeePolicy(amount) ==
  LET q == BigDivSmall(amount, 100)
      c == IF BigModSmall(amount, 100) = 0 THEN q ELSE BigAdd(q, <<1>>)
  IN  IF BigLt(c, <<1>>) THEN <<1>> ELSE c

\* C9: every transaction in the mempool with an amount in 1..10^12 carries
\* the fee max(1, ceil(amount / 100)), and amount + fee is below 2^64.
C9_FeeExact ==
  \A i \in 1..Len(pending) :
    LET tx == pending[i]
    IN  (tx.amount # <<>> /\ BigLe(tx.amount, TenPow12)) =>
          /\ tx.fee = FeePolicy(tx.amount)
          /\ ~U64AddOverflows(tx.amount, tx.fee)

\* a transfer of 10^12 - 1 is in the mempool with a fee of 10^10
C9_Witness ==
  /\ Len(pending) = 1
  /\ pending[1].amount = BigSub(TenPow12, <<1>>)
  /\ pending[1].fee = TenPow(10)

\* the transactions mine_block turned down for their nonce or balance
MineRejected(pend, acc) ==
  SelectSeq(pend, LAMBDA tx : verify_signature(tx) /\ tx \notin SeqRange(acc.valid))

\* C10: a mine_block that returns a block leaves in the mempool exactly the
\* transactions it turned down for nonce or balance, in their order.
C10_RejectedStayPending ==
  [][(MineBlock /\ res'.ret = "Ok")
       => pending' = MineRejected(pending, MineLoop(MineInit(wallets), pending))]_vars

\* C11: a mine_block that fails with EmptyBlock, on an empty mempool or
\* after turning down every pending transaction, leaves the mempool as it
\* was.
C11_EmptyBlockKeepsMempool ==
  [][(MineBlock /\ res'.ret = "EmptyBlock") => pending' = pending]_vars

\* mine_block has turned down every transaction of a mempool that is not empty
C11_Witness ==
  /\ res = [op |-> "mine", ret |-> "EmptyBlock"]
  /\ pending # <<>>

\* C12: mine_block, whether it returns a block or fails, leaves the
\* wallets, the nonces, the tx_index, the chain and the store unchanged.
C12_MineFrame ==
  [][MineBlock => UNCHANGED <<wallets, nonces, tx_index, chain, db>>]_vars

\* mine_block has returned a block whose state_root is not the root of the
\* wallets: the shadow balances moved, the wallets did not
C12_Witness ==
  /\ res = [op |-> "mine", ret |-> "Ok"]
  /\ \E block \in mined :
       /\ block.index = Len(chain)
       /\ block.state_root #
            calculate_state_root([x \in DOMAIN wallets |-> wallets[x].balance])

\* what the header of a block fails on, as the rule of add_block lists it
HeaderFault(tip, block) ==
  IF block.index # tip.index + 1 THEN "BadIndex"
  ELSE IF block.prev_hash # tip.hash THEN "BadLink"
  ELSE IF calculate_block_hash(block) # block.hash THEN "BadHash"
  ELSE "Ok"

\* C13: add_block turns down a block whose index is not tip.index + 1
\* (BadIndex), whose prev_hash is not tip.hash (BadLink) or whose hash is
\* not the recomputed one (BadHash), and then leaves the chain, wallets,
\* tx_index, mempool and store unchanged.
C13_RejectsNonExtending ==
  [][\A block \in CallerBlocks, checked \in BOOLEAN :
       (AddBlock(block, checked, 0) /\ HeaderFault(chain[Len(chain)], block) # "Ok")
         => /\ res'.ret = HeaderFault(chain[Len(chain)], block)
            /\ UNCHANGED <<chain, wallets, tx_index, pending, db>>]_vars

\* add_block has turned down a block with a wrong hash on a chain of two
C13_Witness ==
  /\ res = [op |-> "add", ret |-> "BadHash"]
  /\ Len(chain) = 2

\* C14: when the write of the block fails, add_block returns
\* PersistenceError and the wallets, the tx_index and the chain are as
\* they were before the call.
C14_AllOrNothing ==
  [][\A block \in mined, checked \in BOOLEAN, io \in StoreOutcomes :
       (AddBlockIo(block, checked, 0, io)
          /\ HeaderFault(chain[Len(chain)], block) = "Ok" /\ ~io.block)
         => /\ res'.ret = "PersistenceError"
            /\ UNCHANGED <<wallets, tx_index, chain>>]_vars

\* the addresses of the transactions of a block
Parties(block) ==
  UNION {{block.transactions[i].from, block.transactions[i].to} :
           i \in 1..Len(block.transactions)}

\* C15: when add_block returns success, the store holds the block under
\* its index and, for every wallet of a sender or recipient of the block,
\* a record equal to the wallet in memory.
C15_Durable ==
  [][\A block \in mined, checked \in BOOLEAN, io \in StoreOutcomes :
       (AddBlockIo(block, checked, 0, io) /\ res'.ret = "Ok")
         => /\ block.index \in DOMAIN db'.blocks
            /\ db'.blocks[block.index] = block
            /\ \A x \in Parties(block) \cap DOMAIN wallets' :
                 x \in DOMAIN db'.wallets /\ db'.wallets[x] = wallets'[x]]_vars

\* C16: idempotent load.  After close and load, get_balance returns for
\* every address that had a wallet before close what it returned before.
C16_IdempotentLoad ==
  [][Load => \A x \in DOMAIN wallets :
               get_balance(wallets', x) = get_balance(wallets, x)]_vars

\* the places <<i, j>> of the chain that hold a transaction from or to x
PlacesOf(ch, x) ==
  {pl \in UNION {{<<i, j>> : j \in 1..Len(ch[i].transactions)} : i \in 1..Len(ch)} :
     x \in {ch[pl[1]].transactions[pl[2]].from, ch[pl[1]].transactions[pl[2]].to}}

\* C17: in an engine that was not restarted and was handed mined blocks
\* only, the tx_count of every wallet is the number of transactions in the
\* chain that the wallet's address sent or received.
C17_TxCount ==
  (foreign = 0 /\ restarts = 0) =>
     \A x \in DOMAIN wallets : wallets[x].tx_count = Cardinality(PlacesOf(chain, x))

\* some transaction of txs, applied in order to the wallets w, finds its
\* sender with less than amount + fee
RECURSIVE ShortOfFunds(_, _)
ShortOfFunds(w, txs) ==
  IF txs = <<>> THEN FALSE
  ELSE LET tx == Head(txs)
       IN  IF tx.from \in DOMAIN w
                /\ BigLt(w[tx.from].balance, BigAdd(tx.amount, tx.fee))
             THEN TRUE
             ELSE ShortOfFunds(AbCredit(AbDebit(w, tx), tx), Tail(txs))

\* C18: balances never underflow.  A block, mined or made up by the
\* caller, in which a sender has less than amount + fee when its
\* transaction is debited is not applied: add_block leaves the wallets and
\* the chain as they were.
C18_NoUnderflow ==
  [][\A block \in CallerBlocks, checked \in BOOLEAN :
       (AddBlock(block, checked, 0)
          /\ HeaderFault(chain[Len(chain)], block) = "Ok"
          /\ ShortOfFunds(wallets, block.transactions))
         => UNCHANGED <<wallets, chain>>]_vars

\* the transactions of the chain from or to x, by block and then by place
RECURSIVE TxsOf(_, _)
TxsOf(ch, x) ==
  IF ch = <<>> THEN <<>>
  ELSE SelectSeq(Head(ch).transactions, LAMBDA tx : x \in {tx.from, tx.to})
         \o TxsOf(Tail(ch), x)

\* C19: get_user_transactions(x) returns the transactions of the chain
\* whose sender or recipient is x, one entry for each, ordered by block
\* index and then by place in the block.
C19_UserTransactions ==
  \A x \in Addresses : get_user_transactions(chain, tx_index, x) = TxsOf(chain, x)

\* C20: get_stats always returns, and reports is_valid as verify_chain
\* gives it, total_blocks as the length of the chain and chain_height as
\* total_blocks - 1.
C20_GetStatsReturns ==
  [][GetStats => /\ res' = [op |-> "stats", ret |-> "Ok", value |-> StatsOf(chain)]
                 /\ ~hung']_vars

\* every block after the first names the hash of the block before it and
\* carries the hash recomputed from its own fields
Linked(ch) ==
  \A i \in 1..(Len(ch) - 1) :
    /\ ch[i + 1].prev_hash = ch[i].hash
    /\ ch[i + 1].hash = calculate_block_hash(ch[i + 1])

C22_Leaderboard ==
  \A iter \in IterOrders(wallets) :
    LET lb == get_leaderboard(wallets, iter)
    IN  /\ Len(lb) = Cardinality(DOMAIN wallets)
        /\ \A x \in DOMAIN wallets :
             \E i \in 1..Len(lb) :
               /\ lb[i] = [address |-> x, balance |-> wallets[x].balance,
                                  tx_count |-> wallets[x].tx_count]
               /\ \A j \in 1..Len(lb) : lb[j].address = x => j = i
        /\ \A i \in 1..(Len(lb) - 1) : BigLe(lb[i + 1].balance, lb[i].balance)

\* after two blocks the poorest of the three initial wallets leads the board
C22_Witness ==
  /\ Len(chain) = 3
  /\ get_leaderboard(wallets, AddrOrder)[1].address = "a-a"
  /\ get_leaderboard(wallets, AddrOrder)[3].address = "a"
\* C23: signature round-trip.  Every transaction that create_transaction
\* has enqueued, before or after a load, passes the signature check that
\* mine_block applies to the pending transactions.
C23_SignatureRoundTrip ==
  \A i \in 1..Len(pending) : verify_signature(pending[i])

\* a transaction was enqueued after close and load, on a chain of two blocks
C23_Witness ==
  /\ restarts = 1
  /\ Len(chain) = 2
  /\ pending # <<>>
  /\ res = [op |-> "create", ret |-> "Ok"]
\* the transactions create_transaction has made that are still to be seen:
\* in the mempool, in a block mine_block returned, or in the chain
KnownTxs ==
  SeqRange(pending) \cup ChainTxs(chain)
    \cup UNION {SeqRange(block.transactions) : block \in mined}

\* C24: tx_id is unique.  No two different transactions made by
\* create_transaction carry the same tx_id, for senders and recipients
\* of an alphabet with '-' and across close and load.
C24_TxIdUnique ==
  \A t1, t2 \in KnownTxs : t1.tx_id = t2.tx_id => t1 = t2
\* C28: under concurrent create_transaction calls the mempool holds the
\* transactions of each sender in the order of their nonces: of two
\* transactions of one sender, the one with the smaller nonce is enqueued
\* first.
C28_MempoolNonceOrder ==
  \A i, j \in 1..Len(pending) :
    (i < j /\ pending[i].from = pending[j].from) => pending[i].nonce < pending[j].nonce
\* C25: add_block is linearizable.  Of concurrent add_block calls with
\* blocks that extend the same tip, at most one appends its block: the
\* chain never holds two blocks with the same index, the block at
\* position i has index i.
C25_AddLinearizable ==
  \A i \in 1..Len(chain) : chain[i].index = i - 1

\* line 368 taken back: the sender's wallet as it was before the debit
UndoDebit(w, tx) ==
  IF tx.from \in DOMAIN w
    THEN [w EXCEPT ![tx.from] =
            [balance |-> U64WrappingAdd(@.balance, U64WrappingAdd(tx.amount, tx.fee)),
             tx_count |-> @.tx_count - 1]]
    ELSE w

\* the account stores between whole transaction applications that are next
\* to w: every transaction that is debited and not yet credited is either
\* taken back or completed
RECURSIVE WholeStates(_, _)
WholeStates(w, th) ==
  IF th > MaxInflight THEN {w}
  ELSE IF inflight[th].pc = "line 373"
    THEN LET tx == inflight[th].block.transactions[inflight[th].i]
         IN  WholeStates(UndoDebit(w, tx), th + 1) \cup WholeStates(AbCredit(w, tx), th + 1)
    ELSE WholeStates(w, th + 1)

\* C29: a get_leaderboard that runs while add_block calls are under way
\* returns the balances of one state of the account store between whole
\* transaction applications, never one in which a sender is debited for a
\* transaction whose recipient is not yet credited.
C29_LeaderboardSnapshot ==
  [][\A iter \in IterOrders(wallets) :
       GetLeaderboard(iter)
         => \E W \in WholeStates(wallets, 1) :
              \E it \in IterOrders(W) : res'.value = get_leaderboard(W, it)]_vars
\* the nonce of the last transaction of `from` in the chain, 0 without one
LastAppliedNonce(ch, from) ==
  LET ns == AppliedNonces(ch, from)
  IN  IF ns = <<>> THEN 0 ELSE ns[Len(ns)]

\* C26: in an engine that was not restarted and was handed mined blocks
\* only, a mine_block whose first pending transaction carries the nonce
\* after its sender's last applied one, and whose sender can pay amount +
\* fee, returns a block that holds that transaction.
C26_NextNonceAccepted ==
  [][(/\ MineBlock
      /\ restarts = 0 /\ foreign = 0
      /\ pending # <<>>
      /\ pending[1].nonce = LastAppliedNonce(chain, pending[1].from) + 1
      /\ pending[1].from \in DOMAIN wallets
      /\ BigLe(BigAdd(pending[1].amount, pending[1].fee),
               wallets[pending[1].from].balance))
       => /\ res'.ret = "Ok"
          /\ \E block \in mined' \ mined : pending[1] \in SeqRange(block.transactions)]_vars
\* C27: add_block returns for every block that passes the header checks:
\* no application of a transaction waits for ever on a lock of the account
\* store or of tx_index, also when sender and recipient are the same
\* address or fall under the same map lock.
C27_AddBlockReturns ==
  [][\A block \in CallerBlocks, checked \in BOOLEAN :
       \A k \in ShardChoices(block) :
         (AddBlock(block, checked, k) /\ HeaderFault(chain[Len(chain)], block) = "Ok")
           => (res'.ret # "Hang" /\ ~hung')]_vars
\* the balance of x in the account store, 0 for an address without a wallet
BalanceOf(w, x) == IF x \in DOMAIN w THEN w[x].balance ELSE <<>>

\* the shadow balance of x that mine_block hashed into the state_root of
\* the block (calculate_state_root digests the pairs of address and
\* balance), 0 for an address the shadow map does not hold
ShadowBalance(block, x) ==
  LET pairs == block.state_root[2]
      at == {i \in 1..Len(pairs) : pairs[i][1] = x}
  IN  IF at = {} THEN <<>> ELSE pairs[CHOOSE i \in at : TRUE][2]

\* C30: add_block, handed a block that mine_block returned on the present
\* tip, succeeds, and the balance of every address is then the shadow
\* balance from which mine_block computed the state_root of the block.
C30_AddReproducesShadow ==
  [][\A block \in mined, checked \in BOOLEAN :
       \A k \in ShardChoices(block) :
         (AddBlock(block, checked, k) /\ HeaderFault(chain[Len(chain)], block) = "Ok")
           => /\ res'.ret = "Ok"
              /\ \A x \in Addresses :
                   BalanceOf(wallets', x) = ShadowBalance(block, x)]_vars
\* C31: the chain is anchored by genesis in every reachable state, also
\* after load on a store that holds no block: it is not empty and the
\* block at position i has index i (the first one index 0).
C31_GenesisAnchored ==
  /\ chain # <<>>
  /\ \A i \in 1..Len(chain) : chain[i].index = i - 1
\* the balances after the transactions txs, in order, on the balances of w
RECURSIVE ReplayTxs(_, _)
ReplayTxs(w, txs) ==
  IF txs = <<>> THEN w
  ELSE ReplayTxs(AbCredit(AbDebit(w, Head(txs)), Head(txs)), Tail(txs))

RECURSIVE ReplayChain(_, _)
ReplayChain(w, ch) ==
  IF ch = <<>> THEN w
  ELSE ReplayChain(ReplayTxs(w, Head(ch).transactions), Tail(ch))

\* C32: recovery tolerates a partial write of a block.  When the process
\* stops inside add_block after the block record is written, the load
\* that follows yields balances equal to the transactions of the loaded
\* chain applied to the initial balances.
C32_PartialWriteRecovery ==
  [][\A block \in mined, checked \in BOOLEAN, written \in SUBSET Callers :
       CrashInAddBlock(block, checked, written)
         => \A x \in Addresses :
              BalanceOf(wallets', x) =
                BalanceOf(ReplayChain([y \in DOMAIN InitialWallets |->
                                         NewWallet(InitialWallets[y])], chain'), x)]_vars

\* C33: load rebuilds the per-address transaction index.  After close and
\* load, get_user_transactions returns for every address the list it
\* returned before close.
C33_LoadRebuildsIndex ==
  [][Load => \A x \in Addresses :
       get_user_transactions(chain', tx_index', x)
         = get_user_transactions(chain, tx_index, x)]_vars
\* C34: create_transaction never changes an existing wallet.  Whatever
\* calls of other threads run in between, every step of a
\* create_transaction call leaves each wallet that exists before the step
\* as it is; only a wallet for an address without one is added.
C34_CreateKeepsWallets ==
  [][(\E th \in Threads :
        \/ CtTake(th)
        \/ CtFinish(th)
        \/ \E p \in Transfers, amount \in Amounts : CtBegin(th, p[1], p[2], amount))
       => \A x \in DOMAIN wallets : x \in DOMAIN wallets' /\ wallets'[x] = wallets[x]]_vars
\* C35: add_block never increases the sum of all balances.  For every
\* block it accepts, made by mine_block or by the caller, also one with a
\* transaction whose sender has no wallet, the sum of the balances after
\* the call is at most the sum before it.
C35_NoMint ==
  [][\A block \in mined \cup MadeUpBlocks :
       (AddBlock(block, FALSE, 0) /\ res'.ret = "Ok")
         => BigLe(TotalCoins(wallets'), TotalCoins(wallets))]_vars
\* C36: the block hash binds the contents of the transactions.  A mined
\* block on the present tip in which only the amount, the fee, the sender
\* or the recipient of a transaction is changed is turned down by
\* add_block with BadHash, and a chain in which a block after genesis is
\* changed so fails verify_chain.
C36_HashBindsContents ==
  [][/\ \A block \in mined :
          \A altered \in AlteredBlocks(block) :
            (/\ AddBlock(altered, FALSE, 0)
             /\ HeaderFault(chain[Len(chain)], altered) \notin {"BadIndex", "BadLink"})
              => res'.ret = "BadHash"
     /\ \A i \in 2..Len(chain') :
          \A altered \in AlteredBlocks(chain'[i]) :
            ~verify_chain([chain' EXCEPT ![i] = altered])]_vars
====
